---- MODULE Spec2Model ----
(***************************************************************************)
(* State-machine model of the ErgodicWalk scheduler (src/ergodic-walk.ts). *)
(*                                                                         *)
(* The scheduler runs on one JavaScript thread.  A method runs without     *)
(* interruption up to its `await`; the part after the `await` runs when    *)
(* the awaited onJump promise settles.  Host calls, timer firings and      *)
(* promise settlements are therefore the atomic steps of the model.        *)
(* Armed timers may fire in any order: arbitrary time may pass between     *)
(* two steps.                                                              *)
(*                                                                         *)
(* trace and steps record the calls made to the two callbacks              *)
(* (onStateChange and onJump) in program order.                            *)
(***************************************************************************)
EXTENDS Integers, Sequences, FiniteSets

\* ---------------------------------------------------------------- bounds
MaxCalls == 7      \* onJump invocations plus setTimeout calls explored

\* ------------------------------------------------------------ WalkConfig
LeisureConfig == [interval |-> 15000, showBar |-> TRUE]
FastConfig == [interval |-> 2000, showBar |-> FALSE]
ZeroConfig == [interval |-> 0, showBar |-> TRUE]
NegativeConfig == [interval |-> -1000, showBar |-> FALSE]
WalkConfig == {LeisureConfig, FastConfig, ZeroConfig, NegativeConfig}

\* `null` for the timer handle and for a WalkConfig | null
NoTimer == 0
Null == <<>>
Some(c) == <<c>>

\* `null` for ErgodicPlugin.timerBarEl
NoBar == 0

\* the two shapes of onStateChange call
On(c) == [active |-> TRUE, config |-> Some(c)]
Off == [active |-> FALSE, config |-> Null]

VARIABLES
    timerId,        \* this.timerId: NoTimer or the handle of a timer
    currentConfig,  \* this.currentConfig: Null or Some(config)
    timers,         \* every setTimeout call made so far, [kind, interval];
                    \*   the handle of a timer is its index
    armed,          \* the handles armed and neither fired nor cleared
    trace,          \* the onStateChange calls made so far
    steps,          \* the onJump calls made so far, each with its status
    seen,           \* what this.isActive was on entry to each
                    \*   onStateChange call made so far
    lastCall,       \* history, kept under CallSpec only: the entry point
                    \*   that ran last (a method the host called, a timer
                    \*   callback or a promise settlement)
    timerBarEl,     \* ErgodicPlugin.timerBarEl, used under HostSpec only:
                    \*   NoBar, or the interval the bar is animated for
    leisureIcon,    \* the icon set on leisureRibbonEl
    fastIcon,       \* the icon set on fastRibbonEl
    statusBar,      \* statusBarItemEl.style.display
    stopListener,   \* stopWalkOnUIClick is a click listener of the body
    didSwipe        \* ErgodicPlugin.didSwipe

\* the scheduler's fields and the calls it has made
walk == <<timerId, currentConfig, timers, armed, trace, steps, seen>>

\* the plugin's fields
ui == <<timerBarEl, leisureIcon, fastIcon, statusBar, stopListener, didSwipe>>

vars ==
    <<timerId, currentConfig, timers, armed, trace, steps, seen, lastCall,
      timerBarEl, leisureIcon, fastIcon, statusBar, stopListener, didSwipe>>

\* The scheduler and its environment as one value.
Cur ==
    [timerId |-> timerId, currentConfig |-> currentConfig, timers |-> timers,
     armed |-> armed, trace |-> trace, steps |-> steps, seen |-> seen]

\* The next state is s, provided s stays inside the explored bounds.
Set(s) ==
    /\ Len(s.steps) + Len(s.timers) <= MaxCalls
    /\ timerId' = s.timerId
    /\ currentConfig' = s.currentConfig
    /\ timers' = s.timers
    /\ armed' = s.armed
    /\ trace' = s.trace
    /\ steps' = s.steps
    /\ seen' = s.seen

\* ------------------------------------------------------- host primitives
\* setTimeout(callback, interval): arms a timer; its handle is
\* Len(timers) of the result.  kind names the callback: "noop" for
\* () => {} and "continue" for () => this.continue().
setTimeout(s, kind, interval) ==
    [s EXCEPT !.timers = Append(s.timers,
                                [kind |-> kind, interval |-> interval]),
              !.armed = s.armed \cup {Len(s.timers) + 1}]

\* clearTimeout(handle): cancels the timer if it is still armed.
clearTimeout(s, handle) == [s EXCEPT !.armed = s.armed \ {handle}]

\* this.callbacks.onStateChange(...): the callback is entered with the
\* scheduler as the caller has left it
onStateChange(s, note) ==
    [s EXCEPT !.trace = Append(s.trace, note),
              !.seen = Append(s.seen, s.timerId # NoTimer)]

\* this.callbacks.onJump(config): the call is made now and its promise is
\* pending; kind is the method that awaits it.  noteAt and timerAt are the
\* numbers of onStateChange and setTimeout calls made before this call.
onJump(s, kind, c) ==
    [s EXCEPT !.steps = Append(s.steps,
        [cfg |-> c, kind |-> kind, status |-> "pending",
         noteAt |-> Len(s.trace), timerAt |-> Len(s.timers)])]

\* this.timerId = setTimeout(...)
assignTimer(s, kind, interval) ==
    [setTimeout(s, kind, interval) EXCEPT !.timerId = Len(s.timers) + 1]

\* --------------------------------------------------------- ErgodicWalk
\* isActive testing whether the timer held is still armed
isActiveWhileArmed(s) == s.timerId \in s.armed

isActive(s) == s.timerId # NoTimer

\* stop() without its `if (!this.isActive) return`
stopUnguarded(s) ==
    onStateChange([clearTimeout(s, s.timerId) EXCEPT !.timerId = NoTimer], Off)

\* stop() notifying before it sets timerId to null
stopNotifiesFirst(s) ==
    IF ~isActive(s) THEN s
    ELSE [onStateChange(clearTimeout(s, s.timerId), Off)
            EXCEPT !.timerId = NoTimer]

\* stop() without its clearTimeout
stopWithoutClear(s) ==
    IF ~isActive(s) THEN s
    ELSE onStateChange([s EXCEPT !.timerId = NoTimer], Off)

stop(s) ==
    IF ~isActive(s) THEN s
    ELSE onStateChange([clearTimeout(s, s.timerId) EXCEPT !.timerId = NoTimer],
                       Off)

\* start() without its onStateChange(true, config)
startSilent(s, config) ==
    LET s1 == IF isActive(s) THEN stop(s) ELSE s
    IN  IF config.interval <= 0 THEN s1
        ELSE LET s2 == [s1 EXCEPT !.currentConfig = Some(config)]
                 s3 == assignTimer(s2, "noop", config.interval)
             IN  onJump(s3, "start", s3.currentConfig[1])

\* start() rejecting only negative intervals: `config.interval < 0`
startAcceptsZero(s, config) ==
    LET s1 == IF isActive(s) THEN stop(s) ELSE s
    IN  IF config.interval < 0 THEN s1
        ELSE LET s2 == [s1 EXCEPT !.currentConfig = Some(config)]
                 s3 == assignTimer(s2, "noop", config.interval)
                 s4 == onStateChange(s3, On(s3.currentConfig[1]))
             IN  onJump(s4, "start", s4.currentConfig[1])

\* start() calling onJump before onStateChange(true, config)
startJumpsFirst(s, config) ==
    LET s1 == IF isActive(s) THEN stop(s) ELSE s
    IN  IF config.interval <= 0 THEN s1
        ELSE LET s2 == [s1 EXCEPT !.currentConfig = Some(config)]
                 s3 == assignTimer(s2, "noop", config.interval)
                 s4 == onJump(s3, "start", s3.currentConfig[1])
             IN  onStateChange(s4, On(s4.currentConfig[1]))

\* start(config) up to its await
start(s, config) ==
    LET s1 == IF isActive(s) THEN stop(s) ELSE s
    IN  IF config.interval <= 0 THEN s1
        ELSE LET s2 == [s1 EXCEPT !.currentConfig = Some(config)]
                 s3 == assignTimer(s2, "noop", config.interval)
                 s4 == onStateChange(s3, On(s3.currentConfig[1]))
             IN  onJump(s4, "start", s4.currentConfig[1])

\* start(config) up to its await, when the callback named by hook calls
\* this.stop() before it returns
Hooks == {"onStateChange", "onJump"}

startReentrant(s, config, hook) ==
    LET s1 == IF isActive(s) THEN stop(s) ELSE s
    IN  IF config.interval <= 0 THEN s1
        ELSE LET s2 == [s1 EXCEPT !.currentConfig = Some(config)]
                 s3 == assignTimer(s2, "noop", config.interval)
                 s4 == onStateChange(s3, On(s3.currentConfig[1]))
                 s5 == IF hook = "onStateChange" THEN stop(s4) ELSE s4
                 s6 == onJump(s5, "start", s5.currentConfig[1])
             IN  IF hook = "onJump" THEN stop(s6) ELSE s6

\* start() testing `this.currentConfig === null` after its await
startResumeChecksConfig(s, success) ==
    IF s.currentConfig = Null THEN s
    ELSE IF success
         THEN assignTimer(s, "continue", s.currentConfig[1].interval)
         ELSE stop(s)

\* start() without the `if (!this.isActive) return` after its await
startResumeUnchecked(s, success) ==
    IF success
    THEN assignTimer(s, "continue", s.currentConfig[1].interval)
    ELSE stop(s)

\* start() without the stop() of its failure branch
startResumeKeepsFailedWalk(s, success) ==
    IF ~isActive(s) THEN s
    ELSE IF success
         THEN assignTimer(s, "continue", s.currentConfig[1].interval)
         ELSE s

\* start(config) after its await, success being the step's result
startResume(s, success) ==
    IF ~isActive(s) THEN s
    ELSE IF success
         THEN assignTimer(s, "continue", s.currentConfig[1].interval)
         ELSE stop(s)

\* continue() without its `if (!this.isActive) return`
continueUnguarded(s) ==
    IF s.currentConfig = Null THEN s
    ELSE onJump(s, "continue", s.currentConfig[1])

\* continue() up to its await
continue(s) ==
    IF ~isActive(s) THEN s
    ELSE onJump(s, "continue", s.currentConfig[1])

\* continue() that does not re-arm the timer after a successful step
continueResumeWithoutRearm(s, success) ==
    IF success /\ isActive(s) THEN s ELSE stop(s)

\* continue() without the stop() of its failure branch
continueResumeKeepsFailedWalk(s, success) ==
    IF ~isActive(s) THEN s
    ELSE IF success
         THEN assignTimer(s, "continue", s.currentConfig[1].interval)
         ELSE s

\* continue() notifying (false, null) in its else branch even when Idle
continueResumeNotifiesAgain(s, success) ==
    IF success /\ isActive(s)
    THEN assignTimer(s, "continue", s.currentConfig[1].interval)
    ELSE stopUnguarded(s)

\* continue() after its await
continueResume(s, success) ==
    IF success /\ isActive(s)
    THEN assignTimer(s, "continue", s.currentConfig[1].interval)
    ELSE stop(s)

\* forceNext() invoking onJump without restarting the walk
forceNextJumpOnly(s) ==
    IF ~isActive(s) THEN s
    ELSE onJump(s, "start", s.currentConfig[1])

forceNext(s) ==
    IF ~isActive(s) THEN s
    ELSE start(s, s.currentConfig[1])

\* resetTimer() without its clearTimeout
resetTimerWithoutClear(s) ==
    IF ~isActive(s) THEN s
    ELSE assignTimer(s, "continue", s.currentConfig[1].interval)

resetTimer(s) ==
    IF ~isActive(s) THEN s
    ELSE assignTimer(clearTimeout(s, s.timerId), "continue",
                     s.currentConfig[1].interval)

\* ------------------------------------------------------------- promises
Pending(s) == {i \in 1..Len(s.steps) : s.steps[i].status = "pending"}

Settle(s, i, status) == [s EXCEPT !.steps[i].status = status]

\* ----------------------------------------------------------------- Init
Init ==
    /\ timerId = NoTimer
    /\ currentConfig = Null
    /\ timers = << >>
    /\ armed = {}
    /\ trace = << >>
    /\ steps = << >>
    /\ seen = << >>
    /\ lastCall = "none"
    /\ timerBarEl = NoBar
    /\ leisureIcon = "shuffle"
    /\ fastIcon = "fast-forward"
    /\ statusBar = ""
    /\ stopListener = FALSE
    /\ didSwipe = FALSE

\* -------------------------------------------------------------- actions
\* the host calls walk.start(config)
Start(config) == Set(start(Cur, config))

\* the host calls walk.start(config) and one of its callbacks calls
\* walk.stop() from inside start()
StartReentrant(config, hook) == Set(startReentrant(Cur, config, hook))

\* the host calls walk.stop()
Stop == Set(stop(Cur))

\* the host calls walk.forceNext()
ForceNext == Set(forceNext(Cur))

\* the host calls walk.resetTimer()
ResetTimer == Set(resetTimer(Cur))

\* an armed timer fires and runs its callback
Fire(t) ==
    /\ t \in armed
    /\ LET s == [Cur EXCEPT !.armed = armed \ {t}]
       IN  IF timers[t].kind = "continue" THEN Set(continue(s)) ELSE Set(s)

\* the promise of step i resolves and the method awaiting it resumes
Resolve(i, success) ==
    /\ i \in Pending(Cur)
    /\ LET s == Settle(Cur, i, IF success THEN "ok" ELSE "failed")
       IN  IF steps[i].kind = "start"
           THEN Set(startResume(s, success))
           ELSE Set(continueResume(s, success))

\* the promise of step i rejects: the awaiting method throws at its await
Reject(i) ==
    /\ i \in Pending(Cur)
    /\ Set(Settle(Cur, i, "rejected"))

\* one entry into the scheduler
Next ==
    /\ \/ \E config \in WalkConfig : Start(config)
       \/ Stop
       \/ ForceNext
       \/ ResetTimer
       \/ \E t \in armed : Fire(t)
       \/ \E i \in 1..Len(steps), success \in BOOLEAN : Resolve(i, success)
       \/ \E i \in 1..Len(steps) : Reject(i)
    /\ UNCHANGED <<lastCall, ui>>

Spec == Init /\ [][Next]_vars

\* the same entries, lastCall naming the one that ran
CallNext ==
    /\ \/ (\E config \in WalkConfig : Start(config)) /\ lastCall' = "start"
       \/ Stop /\ lastCall' = "stop"
       \/ ForceNext /\ lastCall' = "forceNext"
       \/ ResetTimer /\ lastCall' = "resetTimer"
       \/ (\E t \in armed : Fire(t)) /\ lastCall' = "timer"
       \/ (\E i \in 1..Len(steps), success \in BOOLEAN :
                Resolve(i, success))
          /\ lastCall' = "resolve"
       \/ (\E i \in 1..Len(steps) : Reject(i)) /\ lastCall' = "reject"
    /\ UNCHANGED ui

CallSpec == Init /\ [][CallNext]_vars

\* the scheduler with callbacks that may call stop() synchronously
ReentrantNext ==
    \/ Next
    \/ /\ \E config \in WalkConfig, hook \in Hooks :
            StartReentrant(config, hook)
       /\ UNCHANGED <<lastCall, ui>>

ReentrantSpec == Init /\ [][ReentrantNext]_vars

\* a host that calls start(), forceNext() and resetTimer() only while no
\* onJump promise is pending; stop() at any time
DisciplinedNext ==
    /\ \/ /\ Pending(Cur) = {}
          /\ \/ \E config \in WalkConfig : Start(config)
             \/ ForceNext
             \/ ResetTimer
       \/ Stop
       \/ \E t \in armed : Fire(t)
       \/ \E i \in 1..Len(steps), success \in BOOLEAN : Resolve(i, success)
       \/ \E i \in 1..Len(steps) : Reject(i)
    /\ UNCHANGED <<lastCall, ui>>

DisciplinedSpec == Init /\ [][DisciplinedNext]_vars

\* ------------------------------------------------------ unbounded runs
\* The scheduler's own state is timerId, currentConfig, the timers armed
\* and the promises pending; the rest of the variables is a record of the
\* past.  Forget(s) is s without that record: settled steps, timers fired
\* or cleared (but the one timerId holds) and the notifications are
\* dropped and the handles renumbered in their order.  A walk that never
\* ends then runs in finitely many states.
MaxLive == 3       \* timers armed plus promises pending explored

Rank(K, x) == Cardinality({y \in K : y <= x})
Nth(K, k) == CHOOSE x \in K : Rank(K, x) = k

Forget(s) ==
    LET T == s.armed \cup ({s.timerId} \ {NoTimer})
        P == Pending(s)
    IN  [timerId |-> IF s.timerId = NoTimer THEN NoTimer
                     ELSE Rank(T, s.timerId),
         currentConfig |-> s.currentConfig,
         timers |-> [k \in 1..Cardinality(T) |-> s.timers[Nth(T, k)]],
         armed |-> {Rank(T, t) : t \in s.armed},
         trace |-> << >>,
         steps |-> [k \in 1..Cardinality(P) |->
                      [s.steps[Nth(P, k)] EXCEPT !.noteAt = 0,
                                                 !.timerAt = 0]],
         seen |-> << >>]

\* The next state is s with the past forgotten.
LiveSet(s) ==
    /\ Cardinality(s.armed) + Cardinality(Pending(s)) <= MaxLive
    /\ timerId' = Forget(s).timerId
    /\ currentConfig' = Forget(s).currentConfig
    /\ timers' = Forget(s).timers
    /\ armed' = Forget(s).armed
    /\ trace' = Forget(s).trace
    /\ steps' = Forget(s).steps
    /\ seen' = Forget(s).seen
    /\ UNCHANGED <<lastCall, ui>>

LiveStart(config) == LiveSet(start(Cur, config))
LiveStop == LiveSet(stop(Cur))
LiveForceNext == LiveSet(forceNext(Cur))
LiveResetTimer == LiveSet(resetTimer(Cur))

LiveFire(t) ==
    /\ t \in armed
    /\ LET s == [Cur EXCEPT !.armed = armed \ {t}]
       IN  IF timers[t].kind = "continue"
           THEN LiveSet(continue(s))
           ELSE LiveSet(s)

LiveResolve(i, success) ==
    /\ i \in Pending(Cur)
    /\ LET s == Settle(Cur, i, IF success THEN "ok" ELSE "failed")
       IN  IF steps[i].kind = "start"
           THEN LiveSet(startResume(s, success))
           ELSE LiveSet(continueResume(s, success))

\* a timer fires, or a step resolves true
QuietNext ==
    \/ \E t \in armed : LiveFire(t)
    \/ \E i \in 1..Len(steps) : LiveResolve(i, TRUE)

\* the entries of a run in which every promise resolves
LiveNext ==
    \/ \E config \in WalkConfig : LiveStart(config)
    \/ LiveStop
    \/ LiveForceNext
    \/ LiveResetTimer
    \/ QuietNext
    \/ \E i \in 1..Len(steps) : LiveResolve(i, FALSE)

\* armed timers eventually fire, pending promises eventually resolve
LiveSpec ==
    /\ Init
    /\ [][LiveNext]_vars
    /\ WF_vars(\E t \in armed : LiveFire(t))
    /\ WF_vars(\E i \in 1..Len(steps), success \in BOOLEAN :
                    LiveResolve(i, success))

\* --------------------------------------------------------- ErgodicPlugin
\* The plugin (src/main.ts) owns one ErgodicWalk whose onJump is
\* handleJump and whose onStateChange is handleStateChange.  Neither
\* callback calls into the scheduler, so the scheduler's part of a handler
\* is computed first and the notifications it made are then given to
\* handleStateChange in their order.
MaxHostCalls == 6  \* onJump invocations plus setTimeout calls explored
                   \*   with the plugin as the host

leisureInterval == 15
fastInterval == 2

\* the config handleLeisureClick builds from the settings
LeisureClickConfig(showTimerBar) ==
    [interval |-> leisureInterval * 1000, showBar |-> showTimerBar]

\* the config handleFastClick builds from the settings
FastClickConfig == [interval |-> fastInterval * 1000, showBar |-> FALSE]

\* the plugin's fields as one value
Plugin ==
    [timerBarEl |-> timerBarEl, leisureIcon |-> leisureIcon,
     fastIcon |-> fastIcon, statusBar |-> statusBar,
     stopListener |-> stopListener, didSwipe |-> didSwipe]

\* the plugin h and its scheduler s as one value
Host == [s |-> Cur, h |-> Plugin]

removeTimerBar(h) == [h EXCEPT !.timerBarEl = NoBar]

\* viewContent: whether the active leaf has a .view-content element
injectTimerBar(h, intervalMs, viewContent) ==
    IF ~viewContent THEN removeTimerBar(h)
    ELSE [removeTimerBar(h) EXCEPT !.timerBarEl = intervalMs]

updateStatusBar(h, active, config) ==
    IF active /\ config # Null
    THEN [h EXCEPT !.statusBar = "block"]
    ELSE [h EXCEPT !.statusBar = "none"]

\* handleStateChange() that leaves the ribbon icons alone when the walk ends
handleStateChangeKeepsPause(h, note) ==
    IF note.active
    THEN updateStatusBar([h EXCEPT !.leisureIcon = "pause",
                                   !.fastIcon = "pause",
                                   !.stopListener = TRUE],
                         note.active, note.config)
    ELSE updateStatusBar(removeTimerBar([h EXCEPT !.stopListener = FALSE]),
                         note.active, note.config)

handleStateChange(h, note) ==
    IF note.active
    THEN updateStatusBar([h EXCEPT !.leisureIcon = "pause",
                                   !.fastIcon = "pause",
                                   !.stopListener = TRUE],
                         note.active, note.config)
    ELSE updateStatusBar(removeTimerBar([h EXCEPT !.leisureIcon = "shuffle",
                                                  !.fastIcon = "fast-forward",
                                                  !.stopListener = FALSE]),
                         note.active, note.config)

\* handleJump(config) after its await of openRandomNote()
handleJumpResume(h, config, success, viewContent) ==
    IF success /\ config.showBar
    THEN injectTimerBar(h, config.interval, viewContent)
    ELSE h

\* h after handleStateChange has been called for notes[k], notes[k+1], ...
RECURSIVE Notified(_, _, _)
Notified(h, notes, k) ==
    IF k > Len(notes) THEN h
    ELSE Notified(handleStateChange(h, notes[k]), notes, k + 1)

\* The next state is w, after handleStateChange has been called for the
\* notifications the scheduler made on the way from Cur to w.s.
HostSet(w) ==
    /\ Len(w.s.steps) + Len(w.s.timers) <= MaxHostCalls
    /\ Set(w.s)
    /\ LET h == Notified(w.h, w.s.trace, Len(trace) + 1)
       IN  /\ timerBarEl' = h.timerBarEl
           /\ leisureIcon' = h.leisureIcon
           /\ fastIcon' = h.fastIcon
           /\ statusBar' = h.statusBar
           /\ stopListener' = h.stopListener
           /\ didSwipe' = h.didSwipe

\* what a click can land on
Ribbon == {"leisureRibbonEl", "fastRibbonEl"}
Targets == Ribbon \cup {"elsewhere"}

\* stopWalkOnUIClick() stopping the walk on a ribbon click too
stopWalkOnUIClickAnyTarget(w, target) ==
    IF w.h.didSwipe THEN [w EXCEPT !.h.didSwipe = FALSE]
    ELSE IF isActive(w.s) THEN [w EXCEPT !.s = stop(w.s)]
    ELSE w

\* the capture-phase click listener of the body
stopWalkOnUIClick(w, target) ==
    IF w.h.didSwipe THEN [w EXCEPT !.h.didSwipe = FALSE]
    ELSE IF target \in Ribbon THEN w
    ELSE IF isActive(w.s) THEN [w EXCEPT !.s = stop(w.s)]
    ELSE w

handleLeisureClick(w, showTimerBar) ==
    IF isActive(w.s)
    THEN [w EXCEPT !.s = stop(w.s)]
    ELSE [w EXCEPT !.s = start(w.s, LeisureClickConfig(showTimerBar))]

handleFastClick(w) ==
    IF isActive(w.s)
    THEN [w EXCEPT !.s = stop(w.s)]
    ELSE [w EXCEPT !.s = start(w.s, FastClickConfig)]

\* A click on target: the body's listener, when registered, runs first
\* (capture phase), then the callback of the ribbon icon clicked.
Click(target, showTimerBar) ==
    LET w == IF stopListener THEN stopWalkOnUIClick(Host, target) ELSE Host
    IN  CASE target = "leisureRibbonEl" ->
                HostSet(handleLeisureClick(w, showTimerBar))
          [] target = "fastRibbonEl" -> HostSet(handleFastClick(w))
          [] OTHER -> HostSet(w)

\* the commands "Toggle Leisure Walk" and "Toggle Fast Walk"
ToggleLeisureWalk(showTimerBar) ==
    HostSet(handleLeisureClick(Host, showTimerBar))

ToggleFastWalk == HostSet(handleFastClick(Host))

\* the command "Jump Once (no timer)"; nothing awaits its openRandomNote()
JumpOnce ==
    HostSet([Host EXCEPT !.s = IF isActive(Cur) THEN stop(Cur) ELSE Cur])

\* The touch listeners are registered and unregistered on mobile with the
\* click listener of the body.
\* a touch on the active view begins
handleTouchStart ==
    /\ stopListener
    /\ HostSet([Host EXCEPT !.h.didSwipe = FALSE])

\* a touch that began on the active view ends more than minSwipeDist away
handleTouchEnd ==
    /\ stopListener
    /\ HostSet([Host EXCEPT !.h.didSwipe = TRUE])

\* the callback handleTouchEnd scheduled runs: after a forward swipe,
\* after a backward swipe
SwipeForward == HostSet([Host EXCEPT !.s = forceNext(Cur)])
SwipeBack == HostSet([Host EXCEPT !.s = resetTimer(Cur)])

\* an armed timer fires
HostFire(t) ==
    /\ t \in armed
    /\ LET s == [Cur EXCEPT !.armed = armed \ {t}]
       IN  IF timers[t].kind = "continue"
           THEN HostSet([Host EXCEPT !.s = continue(s)])
           ELSE HostSet([Host EXCEPT !.s = s])

\* openRandomNote() of step i resolves: handleJump resumes and returns
\* success, then the scheduler method awaiting it resumes
JumpResolves(i, success, viewContent) ==
    /\ i \in Pending(Cur)
    /\ LET s == Settle(Cur, i, IF success THEN "ok" ELSE "failed")
           h == handleJumpResume(Plugin, steps[i].cfg, success, viewContent)
       IN  IF steps[i].kind = "start"
           THEN HostSet([s |-> startResume(s, success), h |-> h])
           ELSE HostSet([s |-> continueResume(s, success), h |-> h])

\* openRandomNote() of step i rejects: handleJump and the scheduler method
\* awaiting it throw at their await
JumpRejects(i) ==
    /\ i \in Pending(Cur)
    /\ HostSet([Host EXCEPT !.s = Settle(Cur, i, "rejected")])

\* a click anywhere in the window
ClickNext ==
    \E target \in Targets, showTimerBar \in BOOLEAN :
        Click(target, showTimerBar)

\* the other entries into the plugin
OtherNext ==
    \/ \E showTimerBar \in BOOLEAN : ToggleLeisureWalk(showTimerBar)
    \/ ToggleFastWalk
    \/ JumpOnce
    \/ handleTouchStart
    \/ handleTouchEnd
    \/ SwipeForward
    \/ SwipeBack
    \/ \E t \in armed : HostFire(t)
    \/ \E i \in 1..Len(steps), success \in BOOLEAN, viewContent \in BOOLEAN :
          JumpResolves(i, success, viewContent)
    \/ \E i \in 1..Len(steps) : JumpRejects(i)

HostNext ==
    /\ ClickNext \/ OtherNext
    /\ UNCHANGED lastCall

HostSpec == Init /\ [][HostNext]_vars

\* the same entries, lastCall telling a click from the others
HostCallNext ==
    \/ ClickNext /\ lastCall' = "click"
    \/ OtherNext /\ lastCall' = "other"

HostCallSpec == Init /\ [][HostCallNext]_vars

TypeOK ==
    /\ timerId \in 0..Len(timers)
    /\ armed \subseteq 1..Len(timers)
    /\ Len(steps) + Len(timers) <= MaxCalls

\* ============================================================ properties
Steps == 1..Len(steps)
InFlight(i) == steps[i].status = "pending"

\* no walk has been started since step i was invoked
NoWalkSince(i) ==
    \A k \in (steps[i].noteAt + 1)..Len(trace) : ~trace[k].active

\* a walk has been started since step i was invoked
Superseded(i) ==
    \E k \in (steps[i].noteAt + 1)..Len(trace) : trace[k].active

\* the timer held in timerId fires in this step
CurrentTimerFires ==
    /\ timerId \in armed
    /\ timerId \notin armed'
    /\ timerId' = timerId

\* C1: when the walk is stopped while start() awaits its first onJump and
\* no walk is started before that step settles, exactly one
\* onStateChange(false, null) has been emitted since the start, isActive is
\* false, and the resumed start() arms no timer, emits no notification and
\* leaves isActive false, whatever the step's result.
C1StopDuringFirstStep ==
    [][\A i \in Steps :
        (/\ steps[i].kind = "start"
         /\ InFlight(i)
         /\ Len(trace) > steps[i].noteAt
         /\ NoWalkSince(i))
        => /\ Len(trace) = steps[i].noteAt + 1
           /\ trace[Len(trace)] = Off
           /\ timerId = NoTimer
           /\ (steps'[i].status # "pending"
               => /\ timerId' = NoTimer
                  /\ timers' = timers
                  /\ armed' = armed
                  /\ trace' = trace)]_vars

\* start(Leisure), stop() during the first step, the step then resolved
\* true and start() resumed: one timer (the placeholder) was ever armed.
C1Witness ==
    /\ Len(steps) = 1
    /\ steps[1].kind = "start"
    /\ steps[1].status = "ok"
    /\ trace = <<On(LeisureConfig), Off>>
    /\ Len(timers) = 1

\* C2: when a step resolves after a new walk has become active during its
\* flight, its result changes nothing: no stop, no notification, no timer.
C2StaleResultIgnored ==
    [][\A i \in Steps :
        (/\ InFlight(i)
         /\ Superseded(i)
         /\ steps'[i].status \in {"ok", "failed"})
        => /\ timerId' = timerId
           /\ timers' = timers
           /\ armed' = armed
           /\ trace' = trace]_vars

\* C3: at most one onJump invocation is unresolved.
C3OneStepInFlight == Cardinality(Pending(Cur)) <= 1

\* C4: the onStateChange calls alternate (true, cfg), (false, null), ...
\* starting with (true, cfg); each (true, cfg) carries the config of the
\* start that emitted it; isActive is true exactly after a (true, cfg).
C4NotificationsAlternate ==
    /\ \A k \in 1..Len(trace) :
        IF k % 2 = 1
        THEN /\ trace[k].active
             /\ \E i \in Steps : /\ steps[i].kind = "start"
                                 /\ steps[i].noteAt = k
                                 /\ trace[k] = On(steps[i].cfg)
        ELSE trace[k] = Off
    /\ (timerId # NoTimer) <=> (Len(trace) % 2 = 1)

\* walk Leisure superseded by walk Fast: three notifications
C4Witness ==
    /\ Len(trace) = 3
    /\ trace[1] = On(LeisureConfig)
    /\ trace[3] = On(FastConfig)
    /\ timerId # NoTimer

\* C5: at most one timer of the scheduler is armed and neither fired nor
\* cancelled.
C5OneTimerOutstanding == Cardinality(armed) <= 1

\* C6: the held configuration is non-null iff isActive.
C6ConfigIffActive == (currentConfig # Null) <=> (timerId # NoTimer)

\* C7: leaving Active emits (false, null) as the last notification, and
\* while Idle no onJump is invoked by a timer firing or a step settling:
\* only a start() that activates a walk invokes onJump.
C7StopSilences ==
    [][/\ (timerId # NoTimer /\ timerId' = NoTimer)
          => trace' = Append(trace, Off)
       /\ (timerId = NoTimer /\ steps' # steps /\ Len(steps') # Len(steps))
          => /\ Len(steps') = Len(steps) + 1
             /\ steps'[Len(steps')].kind = "start"
             /\ timerId' # NoTimer
             /\ trace' = Append(trace, On(steps'[Len(steps')].cfg))]_vars

\* two walks whose first steps both succeeded, then stop(); a timer whose
\* callback is continue() was left armed and has fired after the stop
C7Witness ==
    /\ timerId = NoTimer
    /\ Len(steps) = 2
    /\ \A i \in Steps : steps[i].kind = "start" /\ steps[i].status = "ok"
    /\ Len(trace) = 4
    /\ Len(timers) = 4
    /\ armed = {}

\* C8: supersession.
\* start(A) has completed with a successful first step, nothing else:
\* the timers armed are the placeholder and the recurring one
C8AfterA ==
    /\ Len(steps) = 1
    /\ steps[1].kind = "start"
    /\ steps[1].status = "ok"
    /\ trace = <<On(steps[1].cfg)>>
    /\ Len(timers) = 2

\* ... and start(B) was then called, walk B is running and the only
\* timers armed since are one for each step of walk B that resolved true
C8WalkB ==
    /\ Len(steps) >= 2
    /\ steps[1].kind = "start"
    /\ steps[1].status = "ok"
    /\ steps[2].kind = "start"
    /\ steps[2].timerAt = 3
    /\ trace = <<On(steps[1].cfg), Off, On(steps[2].cfg)>>
    /\ Len(timers) =
         3 + Cardinality({i \in 2..Len(steps) : steps[i].status = "ok"})

\* in walk B the only timer that can trigger a step is the one held, it was
\* armed for walk B, and every further onJump gets B
C8OnlyB ==
    C8WalkB =>
        /\ \A t \in armed :
            timers[t].kind = "continue"
            => /\ t = timerId
               /\ t > steps[2].timerAt
               /\ timers[t].interval = steps[2].cfg.interval
        /\ \A i \in 3..Len(steps) :
            steps[i].kind = "continue" /\ steps[i].cfg = steps[2].cfg

\* C8: start(B) after start(A) completed with a successful first step gives
\* the notifications (true, A), (false, null), (true, B) and the jumps A, B,
\* and cancels A's timer; when B's timer fires exactly one more onJump(B) is
\* invoked; no timer armed for walk A triggers a step.
C8Supersession ==
    [][/\ (C8AfterA /\ Len(steps') = 2 /\ steps'[2].kind = "start")
          => /\ trace' = <<On(steps[1].cfg), Off, On(steps'[2].cfg)>>
             /\ steps'[1] = steps[1]
             /\ timerId \notin armed'
       /\ C8OnlyB
       /\ C8OnlyB'
       /\ (C8WalkB /\ Len(steps) = 2 /\ steps[2].status = "ok"
           /\ CurrentTimerFires /\ timers[timerId].kind = "continue")
          => /\ Len(steps') = 3
             /\ steps'[3].cfg = steps[2].cfg
             /\ steps'[3].status = "pending"]_vars

C8Witness ==
    /\ C8WalkB
    /\ steps[1].cfg = LeisureConfig
    /\ steps[2].cfg = FastConfig
    /\ steps[2].status = "ok"
    /\ Len(steps) = 3
    /\ steps[3].cfg = FastConfig

\* the first step of a walk resolves false in this step, no walk having
\* been started since
C9FirstStepFails(i) ==
    /\ steps[i].kind = "start"
    /\ InFlight(i)
    /\ NoWalkSince(i)
    /\ steps'[i].status = "failed"

\* C9 as stated: after a first step that resolves false (nothing called in
\* between) the walk got exactly (true, cfg) then (false, null), isActive
\* is false, and no timer was ever scheduled for that walk.
C9NoTimerEverScheduled ==
    [][\A i \in Steps :
        (/\ C9FirstStepFails(i)
         /\ Len(trace) = steps[i].noteAt
         /\ Len(timers) = steps[i].timerAt)
        => /\ trace'[steps[i].noteAt] = On(steps[i].cfg)
           /\ trace' = Append(trace, Off)
           /\ timerId' = NoTimer
           /\ Len(timers') = steps[i].timerAt - 1]_vars

\* C9 (amended): after a first step that resolves false the walk got
\* exactly (true, cfg) then (false, null), isActive is false, and start()
\* has scheduled no timer but the no-op placeholder it armed before the
\* step: its resumption arms none.
C9FirstStepFailure ==
    [][\A i \in Steps :
        C9FirstStepFails(i)
        => /\ Len(trace') = steps[i].noteAt + 1
           /\ trace'[steps[i].noteAt] = On(steps[i].cfg)
           /\ trace'[steps[i].noteAt + 1] = Off
           /\ timerId' = NoTimer
           /\ timers' = timers
           /\ armed' \subseteq armed
           /\ timers[steps[i].timerAt].kind = "noop"]_vars

C9Witness ==
    /\ Len(steps) = 1
    /\ steps[1].kind = "start"
    /\ steps[1].status = "failed"
    /\ trace = <<On(LeisureConfig), Off>>
    /\ timerId = NoTimer
    /\ Len(timers) = 1
    /\ armed = {}

\* C10: when the timer armed after a successful step fires, onJump is
\* invoked exactly once more with the configuration given to start(); when
\* a step awaited by continue() resolves true in the walk that invoked it,
\* a timer running continue() is armed for the same interval.
C10Recurrence ==
    [][/\ (CurrentTimerFires /\ timers[timerId].kind = "continue")
          => /\ Len(steps') = Len(steps) + 1
             /\ steps'[Len(steps')].kind = "continue"
             /\ steps'[Len(steps')].status = "pending"
             /\ trace[Len(trace)] = On(steps'[Len(steps')].cfg)
             /\ trace' = trace
       /\ \A i \in Steps :
            (/\ steps[i].kind = "continue"
             /\ InFlight(i)
             /\ Len(trace) = steps[i].noteAt
             /\ steps'[i].status = "ok")
            => /\ Len(timers') = Len(timers) + 1
               /\ timerId' = Len(timers')
               /\ timerId' \in armed'
               /\ timers'[timerId'] =
                    [kind |-> "continue", interval |-> steps[i].cfg.interval]
               /\ trace' = trace]_vars

\* start(Fast), first step true, the timer fired, second step true, re-armed
C10Witness ==
    /\ Len(steps) = 2
    /\ steps[1].kind = "start"
    /\ steps[1].status = "ok"
    /\ steps[2].kind = "continue"
    /\ steps[2].status = "ok"
    /\ steps[2].cfg = FastConfig
    /\ trace = <<On(FastConfig)>>
    /\ timerId = 3
    /\ armed = {3}
    /\ timers[3] = [kind |-> "continue", interval |-> FastConfig.interval]

\* C11: start(cfg) from Idle with cfg.interval > 0 emits (true, cfg) once
\* and invokes onJump(cfg) once; when that step resolves true, nothing
\* having been notified since, no (false, null) and no further onJump
\* follow and isActive is true.
C11NormalStart ==
    [][/\ \A c \in WalkConfig :
            (c.interval > 0 /\ timerId = NoTimer /\ Start(c))
            => /\ trace' = Append(trace, On(c))
               /\ Len(steps') = Len(steps) + 1
               /\ SubSeq(steps', 1, Len(steps)) = steps
               /\ steps'[Len(steps')].cfg = c
               /\ steps'[Len(steps')].kind = "start"
               /\ steps'[Len(steps')].status = "pending"
               /\ timerId' # NoTimer
       /\ \A i \in Steps :
            (/\ steps[i].kind = "start"
             /\ Len(trace) = steps[i].noteAt
             /\ Resolve(i, TRUE))
            => /\ trace' = trace
               /\ Len(steps') = Len(steps)
               /\ timerId' # NoTimer]_vars

C11Witness ==
    /\ Len(steps) = 1
    /\ steps[1].kind = "start"
    /\ steps[1].cfg = LeisureConfig
    /\ steps[1].status = "ok"
    /\ trace = <<On(LeisureConfig)>>
    /\ timerId = 2

\* C12: start(cfg) with cfg.interval <= 0 called while Idle changes
\* nothing: isActive stays false, no timer is armed, no callback is called.
C12InvalidStartWhenIdle ==
    [][\A c \in WalkConfig :
        (c.interval <= 0 /\ timerId = NoTimer /\ Start(c))
        => UNCHANGED walk]_vars

\* start() has just been called on a scheduler that was never active
C12Witness ==
    /\ lastCall = "start"
    /\ timerId = NoTimer
    /\ trace = << >>
    /\ steps = << >>

\* C13: start(cfg) with cfg.interval <= 0 called while Active changes
\* nothing: the walk, its timer and its configuration stay, no callback.
C13InvalidStartWhenActive ==
    [][\A c \in WalkConfig :
        (c.interval <= 0 /\ timerId # NoTimer /\ Start(c))
        => UNCHANGED walk]_vars

\* C14: when a step awaited by continue() resolves false while Active, the
\* scheduler becomes Idle, emits one (false, null) and arms no timer; while
\* Idle only a start() invokes onJump.
C14FailedStepTerminates ==
    [][/\ \A i \in Steps :
            (/\ steps[i].kind = "continue"
             /\ timerId # NoTimer
             /\ Resolve(i, FALSE))
            => /\ timerId' = NoTimer
               /\ trace' = Append(trace, Off)
               /\ timers' = timers
               /\ timerId \notin armed'
               /\ armed' \subseteq armed
               /\ Len(steps') = Len(steps)
       /\ (timerId = NoTimer /\ Len(steps') # Len(steps))
          => \E c \in WalkConfig : Start(c)]_vars

C14Witness ==
    /\ Len(steps) = 2
    /\ steps[1].status = "ok"
    /\ steps[2].kind = "continue"
    /\ steps[2].status = "failed"
    /\ trace = <<On(FastConfig), Off>>
    /\ timerId = NoTimer
    /\ Len(timers) = 2

\* C15: stop() leaves the scheduler Idle, a second stop() changes nothing,
\* and stop() called while Idle changes no state and calls no callback.
C15StopIdempotent ==
    [][Stop => /\ timerId' = NoTimer
               /\ stop(stop(Cur)) = stop(Cur)
               /\ (timerId = NoTimer => UNCHANGED walk)]_vars

\* stop() has just been called after the walk had ended on a failed step
C15Witness ==
    /\ lastCall = "stop"
    /\ timerId = NoTimer
    /\ Len(steps) = 1
    /\ steps[1].status = "failed"
    /\ trace = <<On(LeisureConfig), Off>>

\* C16: each onStateChange(true, cfg) is followed by the first onJump(cfg)
\* of its walk before any other callback, setTimeout or stop: that onJump
\* was called when the (true, cfg) was the last notification and the
\* placeholder the last timer armed, and no onJump came in between.
C16JumpFollowsActivation ==
    /\ \A k \in 1..Len(trace) :
        trace[k].active
        => \E i \in Steps :
            /\ steps[i].kind = "start"
            /\ steps[i].noteAt = k
            /\ trace[k] = On(steps[i].cfg)
            /\ \A j \in 1..(i - 1) : steps[j].noteAt < k
            /\ steps[i].timerAt >= 1
            /\ timers[steps[i].timerAt].kind = "noop"
    /\ \A i \in Steps :
        steps[i].kind = "start"
        => /\ steps[i].noteAt >= 1
           /\ trace[steps[i].noteAt] = On(steps[i].cfg)

C16Witness ==
    /\ Len(trace) = 3
    /\ Len(steps) = 2
    /\ steps[2].kind = "start"
    /\ steps[2].noteAt = 3
    /\ trace[3] = On(FastConfig)

\* C17: every onJump is invoked while Active, with the configuration of
\* the most recent onStateChange(true, cfg), which is one given to start().
C17ConfigPassThrough ==
    \A i \in Steps :
        /\ steps[i].noteAt >= 1
        /\ trace[steps[i].noteAt] = On(steps[i].cfg)
        /\ steps[i].cfg \in WalkConfig
        /\ steps[i].cfg.interval > 0

C17Witness ==
    /\ Len(steps) = 3
    /\ steps[2].cfg = FastConfig
    /\ steps[3].kind = "continue"
    /\ steps[3].cfg = FastConfig
    /\ steps[3].noteAt = 3
    /\ trace[1] = On(LeisureConfig)

\* C18: while Idle, unless start() is called, neither onJump nor
\* onStateChange is invoked and the scheduler stays Idle, whatever steps
\* settle and whatever timers fire.
C18DisposalSafety ==
    [][(timerId = NoTimer /\ ~(\E c \in WalkConfig : Start(c)))
        => /\ trace' = trace
           /\ Len(steps') = Len(steps)
           /\ timerId' = NoTimer]_vars

\* a step invoked by continue() was in flight at the stop and has resolved
\* true after it: no timer was armed for it
C18Witness ==
    /\ timerId = NoTimer
    /\ Len(steps) = 2
    /\ steps[1].status = "ok"
    /\ steps[2].kind = "continue"
    /\ steps[2].status = "ok"
    /\ trace = <<On(LeisureConfig), Off>>
    /\ Len(timers) = 2
    /\ armed = {}

\* C20: forceNext() while Idle changes nothing; while Active with the
\* timer pending and no step in flight it cancels that timer and invokes
\* onJump with the unchanged configuration; once that step has resolved
\* true exactly one timer is armed for that interval.
C20ForceNext ==
    [][/\ (timerId = NoTimer /\ ForceNext) => UNCHANGED walk
       /\ (/\ timerId \in armed
           /\ Pending(Cur) = {}
           /\ ForceNext)
          => /\ timerId \notin armed'
             /\ currentConfig' = currentConfig
             /\ Len(steps') = Len(steps) + 1
             /\ steps'[Len(steps')].cfg = currentConfig[1]
       /\ \A i \in Steps :
            (/\ steps[i].kind = "start"
             /\ steps[i].noteAt >= 3
             /\ trace[steps[i].noteAt - 2] = On(steps[i].cfg)
             /\ \A j \in 1..(i - 1) : steps[j].status = "ok"
             /\ Len(trace) = steps[i].noteAt
             /\ Len(timers) = steps[i].timerAt
             /\ Resolve(i, TRUE))
            => Cardinality({t \in armed' :
                 timers'[t].interval = steps[i].cfg.interval}) = 1]_vars

\* the (true, cfg) notification of the walk of step i
WalkNote(i) ==
    IF trace[steps[i].noteAt].active
    THEN steps[i].noteAt
    ELSE steps[i].noteAt - 1

\* C19: when onStateChange(true, cfg) or onJump calls stop() from inside
\* start(), the scheduler is Idle when start() suspends and exactly one
\* (false, null) follows the (true, cfg); when the step then resolves, no
\* walk having been started since, start() arms no timer and notifies
\* nothing, and the scheduler stays Idle.
C19ReentrantStop ==
    [][/\ \A c \in WalkConfig, h \in Hooks :
            (c.interval > 0 /\ StartReentrant(c, h))
            => /\ timerId' = NoTimer
               /\ trace' = (IF timerId # NoTimer THEN Append(trace, Off)
                            ELSE trace) \o <<On(c), Off>>
               /\ Len(steps') = Len(steps) + 1
               /\ steps'[Len(steps')].cfg = c
               /\ steps'[Len(steps')].status = "pending"
       /\ \A i \in Steps :
            (/\ steps[i].kind = "start"
             /\ trace[WalkNote(i)] = On(steps[i].cfg)
             /\ Len(trace) = WalkNote(i) + 1
             /\ trace[Len(trace)] = Off
             /\ (Resolve(i, TRUE) \/ Resolve(i, FALSE)))
            => /\ timerId' = NoTimer
               /\ timers' = timers
               /\ armed' = armed
               /\ trace' = trace]_vars

\* onJump was called after the (false, null) of a stop() made from inside
\* onStateChange(true, cfg); the step has resolved true since
C19Witness ==
    /\ Len(steps) = 1
    /\ steps[1].noteAt = 2
    /\ steps[1].status = "ok"
    /\ trace = <<On(LeisureConfig), Off>>
    /\ timerId = NoTimer
    /\ Len(timers) = 1

\* C21: resetTimer() while Active cancels the timer held and arms a fresh
\* one for the same interval, calls neither onJump nor onStateChange and
\* leaves isActive and the configuration as they were; while Idle it
\* changes nothing.
C21ResetTimer ==
    [][ResetTimer =>
        IF timerId = NoTimer
        THEN UNCHANGED walk
        ELSE /\ timerId \notin armed'
             /\ timers' = Append(timers,
                    [kind |-> "continue",
                     interval |-> timers[timerId].interval])
             /\ timerId' = Len(timers')
             /\ armed' = (armed \ {timerId}) \cup {timerId'}
             /\ timers[timerId].interval = currentConfig[1].interval
             /\ trace' = trace
             /\ steps' = steps
             /\ currentConfig' = currentConfig]_vars

\* start(Leisure), first step true, then resetTimer(): the recurring timer
\* 2 was cancelled and timer 3 armed in its place
C21Witness ==
    /\ lastCall = "resetTimer"
    /\ Len(steps) = 1
    /\ steps[1].status = "ok"
    /\ trace = <<On(LeisureConfig)>>
    /\ timerId = 3
    /\ 2 \notin armed
    /\ 3 \in armed
    /\ timers[3] = [kind |-> "continue", interval |-> LeisureConfig.interval]

\* C24: when the walk is stopped while continue() awaits onJump and no walk
\* is started before that step settles, exactly one onStateChange(false,
\* null) has been emitted since the step was invoked, and the resumed
\* continue() arms no timer and emits no notification, whatever the result.
C24StopDuringRecurringStep ==
    [][\A i \in Steps :
        (/\ steps[i].kind = "continue"
         /\ InFlight(i)
         /\ Len(trace) > steps[i].noteAt
         /\ NoWalkSince(i))
        => /\ Len(trace) = steps[i].noteAt + 1
           /\ trace[Len(trace)] = Off
           /\ timerId = NoTimer
           /\ (Resolve(i, TRUE) \/ Resolve(i, FALSE))
               => /\ timerId' = NoTimer
                  /\ timers' = timers
                  /\ armed' = armed
                  /\ trace' = trace]_vars

\* start(Fast), first step true, the timer fired, stop() during the second
\* step, which then resolved true: no timer was armed for it
C24Witness ==
    /\ Len(steps) = 2
    /\ steps[1].status = "ok"
    /\ steps[2].kind = "continue"
    /\ steps[2].cfg = FastConfig
    /\ steps[2].status = "ok"
    /\ trace = <<On(FastConfig), Off>>
    /\ timerId = NoTimer
    /\ Len(timers) = 2
    /\ armed = {1}

\* the timers armed whose callback is continue()
StepTimers(a, ts) == {t \in a : ts[t].kind = "continue"}

\* C25: resetTimer() called while a step is in flight keeps the re-check
\* discipline: the scheduler starts no second step before the one in
\* flight resolves (only a start() or forceNext() of the host does), and
\* when that step resolves true exactly one timer whose callback is
\* continue() is armed.
C25ResetDuringStep ==
    [][(lastCall = "resetTimer" /\ timerId # NoTimer)
        => \A i \in Steps :
            Pending(Cur) = {i}
            => /\ (Len(steps') # Len(steps)
                   => (ForceNext \/ \E c \in WalkConfig : Start(c)))
               /\ Resolve(i, TRUE)
                  => Cardinality(StepTimers(armed', timers')) = 1]_vars

\* C26: each onStateChange(a, _) callback is entered with isActive equal
\* to a; and while the first onJump of a walk is unresolved and no
\* notification has followed its invocation (no stop() has run), isActive
\* is true.
C26OptimisticActivation ==
    /\ Len(seen) = Len(trace)
    /\ \A k \in 1..Len(trace) : seen[k] = trace[k].active
    /\ \A i \in Steps :
        (/\ steps[i].kind = "start"
         /\ InFlight(i)
         /\ Len(trace) = steps[i].noteAt)
        => /\ timerId # NoTimer
           /\ trace[Len(trace)] = On(steps[i].cfg)

\* start(Leisure) then stop() during the first step, then start(Fast) whose
\* first step is in flight with the placeholder timer already fired
C26Witness ==
    /\ seen = <<TRUE, FALSE, TRUE>>
    /\ trace = <<On(LeisureConfig), Off, On(FastConfig)>>
    /\ Len(steps) = 2
    /\ steps[1].status = "pending"
    /\ steps[2].status = "pending"
    /\ timerId = 2
    /\ armed = {}

\* a timer fires whose callback continue() invokes onJump
JumpByTimer ==
    \E t \in armed :
        /\ timers[t].kind = "continue"
        /\ timerId # NoTimer
        /\ LiveFire(t)

\* Active with neither a step in flight nor a step-triggering timer armed
Stalled ==
    /\ timerId # NoTimer
    /\ Pending(Cur) = {}
    /\ StepTimers(armed, timers) = {}

\* C27: in a fair run, if from some point on only timers fire and steps
\* resolve true and the scheduler is Active, onJump is invoked infinitely
\* often; the scheduler is never Active with neither a step in flight nor a
\* step-triggering timer armed.
C27Progress ==
    /\ []~Stalled
    /\ (<>[][QuietNext]_vars /\ <>[](timerId # NoTimer))
        => []<><<JumpByTimer>>_vars

\* a step invoked by continue() is in flight, its timer having fired
C27Witness ==
    /\ timerId # NoTimer
    /\ timerId \notin armed
    /\ Len(steps) = 1
    /\ steps[1].kind = "continue"
    /\ steps[1].cfg = FastConfig
    /\ steps[1].status = "pending"
    /\ armed = {}

\* C28: when the host calls start(), forceNext() and resetTimer() only
\* while no step is in flight, at most one onJump is unresolved and at most
\* one timer whose callback is continue() is armed.
C28DisciplinedHost ==
    /\ Cardinality(Pending(Cur)) <= 1
    /\ Cardinality(StepTimers(armed, timers)) <= 1

\* start(Leisure), first step true, forceNext(), its step true, the timer
\* fired: the third step is in flight and no continue() timer is armed
C28Witness ==
    /\ Len(steps) = 3
    /\ steps[1].status = "ok"
    /\ steps[2].kind = "start"
    /\ steps[2].status = "ok"
    /\ steps[3].kind = "continue"
    /\ steps[3].status = "pending"
    /\ trace = <<On(LeisureConfig), Off, On(LeisureConfig)>>
    /\ Len(timers) = 4
    /\ StepTimers(armed, timers) = {}

\* C29: when the placeholder timer of start() fires, nothing but the set
\* of armed timers changes: no callback is called and isActive stays true;
\* a stop() called after it has fired during the first step clears timerId
\* and emits one (false, null).
C29PlaceholderInert ==
    [][/\ \A t \in armed :
            (timers[t].kind = "noop" /\ Fire(t))
            => /\ trace' = trace
               /\ steps' = steps
               /\ timers' = timers
               /\ timerId' = timerId
               /\ currentConfig' = currentConfig
               /\ armed' = armed \ {t}
               /\ isActive(Cur) => isActive(Cur)'
       /\ \A i \in Steps :
            (/\ steps[i].kind = "start"
             /\ InFlight(i)
             /\ Len(trace) = steps[i].noteAt
             /\ timerId = steps[i].timerAt
             /\ timerId \notin armed)
            => /\ isActive(Cur)
               /\ Stop => /\ timerId' = NoTimer
                          /\ trace' = Append(trace, Off)
                          /\ steps' = steps
                          /\ timers' = timers]_vars

\* start(Fast) and the placeholder has fired during the first step
C29Witness ==
    /\ Len(steps) = 1
    /\ steps[1].kind = "start"
    /\ steps[1].status = "pending"
    /\ trace = <<On(FastConfig)>>
    /\ timers = <<[kind |-> "noop", interval |-> FastConfig.interval]>>
    /\ timerId = 1
    /\ armed = {}

\* C30: forceNext() while Active emits exactly (false, null) then
\* (true, cfg), cfg being the configuration held and the one of the last
\* (true, _) before, then invokes onJump(cfg); isActive is true when it
\* returns.
C30ForceNextNotifies ==
    [][(timerId # NoTimer /\ ForceNext)
        => /\ trace[Len(trace)] = On(currentConfig[1])
           /\ trace' = trace \o <<Off, On(currentConfig[1])>>
           /\ seen' = seen \o <<FALSE, TRUE>>
           /\ steps' = Append(steps,
                [cfg |-> currentConfig[1], kind |-> "start",
                 status |-> "pending", noteAt |-> Len(trace) + 2,
                 timerAt |-> Len(timers) + 1])
           /\ currentConfig' = currentConfig
           /\ isActive(Cur)']_vars

\* start(Leisure), first step true, then forceNext()
C30Witness ==
    /\ lastCall = "forceNext"
    /\ trace = <<On(LeisureConfig), Off, On(LeisureConfig)>>
    /\ Len(steps) = 2
    /\ steps[1].status = "ok"
    /\ steps[2].cfg = LeisureConfig
    /\ steps[2].status = "pending"
    /\ timerId = 3

\* C22: whenever the walk that is active was started by handleFastClick,
\* timerBarEl is null.
C22NoBarInFastWalk ==
    (isActive(Cur) /\ currentConfig = Some(FastClickConfig))
    => timerBarEl = NoBar

\* C23: after the "Jump Once (no timer)" command the scheduler is Idle with
\* no timer armed, and while it is Idle no timer firing and no jump
\* settling makes it Active, arms a timer or invokes onJump, whether or not
\* a step was in flight at the command.
C23JumpOnceLeavesIdle ==
    [][/\ JumpOnce => /\ ~isActive(Cur)'
                      /\ armed' = {}
       /\ (/\ ~isActive(Cur)
           /\ \/ \E t \in armed : HostFire(t)
              \/ \E i \in Steps, success \in BOOLEAN, viewContent \in BOOLEAN :
                    JumpResolves(i, success, viewContent)
              \/ \E i \in Steps : JumpRejects(i))
          => /\ ~isActive(Cur)'
             /\ timers' = timers
             /\ armed' \subseteq armed
             /\ Len(steps') = Len(steps)
             /\ trace' = trace]_vars

\* C31: when the promise of a step rejects, no notification is emitted, no
\* timer is armed and isActive is as before; the walk is left Active with
\* no step in flight and no step-triggering timer armed; from there onJump
\* is invoked only by a start() or forceNext() of the host, and stop()
\* makes the scheduler Idle with one (false, null).
C31RejectedStep ==
    [][/\ \A i \in Steps :
            Reject(i)
            => /\ trace' = trace
               /\ timers' = timers
               /\ armed' = armed
               /\ timerId' = timerId
               /\ Len(steps') = Len(steps)
               /\ (isActive(Cur) /\ Pending(Cur) = {i}) => Stalled'
       /\ Stalled
          => /\ (Len(steps') # Len(steps)
                 => (ForceNext \/ \E c \in WalkConfig : Start(c)))
             /\ Stop => /\ ~isActive(Cur)'
                        /\ trace' = Append(trace, Off)
                        /\ steps' = steps]_vars

\* C32: the ribbon icons show "pause", the status bar item is displayed
\* and stopWalkOnUIClick is registered on the body exactly when
\* walk.isActive is true; otherwise the icons are "shuffle" and
\* "fast-forward", the item is not displayed and the listener is not
\* registered.
C32UIMirrorsScheduler ==
    IF isActive(Cur)
    THEN /\ leisureIcon = "pause"
         /\ fastIcon = "pause"
         /\ statusBar = "block"
         /\ stopListener
    ELSE /\ leisureIcon = "shuffle"
         /\ fastIcon = "fast-forward"
         /\ statusBar # "block"
         /\ ~stopListener

\* a Leisure Walk was stopped during its first jump, a Fast Walk is
\* running and the Leisure jump has resolved since
C32Witness ==
    /\ trace = <<On(LeisureClickConfig(TRUE)), Off, On(FastClickConfig)>>
    /\ Len(steps) = 2
    /\ steps[1].status = "ok"
    /\ steps[2].status = "pending"
    /\ isActive(Cur)
    /\ leisureIcon = "pause"
    /\ statusBar = "block"
    /\ stopListener

\* C33: timerBarEl is non-null only while walk.isActive is true.
C33BarOnlyWhileActive == timerBarEl # NoBar => isActive(Cur)

====
